---- MODULE Spec2Model ----
(***************************************************************************)
(* Model of cec/callbacks_c.c: the seven C entry points that libCEC calls  *)
(* and that forward each event to the Go bridge functions.                 *)
(*                                                                         *)
(* Each native thread runs one invocation at a time:                       *)
(*   NativeCall      libCEC builds the payload and calls an entry point    *)
(*   go...Callback   the entry point's body up to the call of the bridge   *)
(*   ...Bridge       the host handler runs and returns                     *)
(*   Return          the entry point returns to libCEC                     *)
(* Memory is a map from addresses to contents, so that a pointer handed to *)
(* the host handler denotes the storage the C code took the address of.    *)
(***************************************************************************)
EXTENDS Integers, Sequences, FiniteSets, TLC

VARIABLES pc, call, frame, mem, out, running, hres, ret, faulted, lastOutcome, prior, started

vars == <<pc, call, frame, mem, out, running, hres, ret, faulted, lastOutcome, prior, started>>

\* Number of entry-point invocations libCEC makes in one run.
MaxCalls == 2

\* The native threads that deliver events.
Threads == {1, 2}

NULL == 0

\* void* handle values.  libCEC passes the callback parameter the client
\* registered for the adapter, which may be NULL; thread t delivers the events
\* of adapter t.
Handles(t) == {NULL, t}

\* ---------------------------------------------------------------- memory
\* Address of the event record libCEC passes to thread t's invocation.
RecAddr(t) == 10 + t
\* Address of the message text of a log record.
TextAddr(t) == 20 + t
\* Address of the libcec_parameter object the caller of goAlertCallback owns.
CallerParamAddr(t) == 30 + t
\* Address of goAlertCallback's own parameter object `param`.
FrameParamAddr(t) == 40 + t

Addrs == {NULL} \cup UNION {{RecAddr(t), TextAddr(t), CallerParamAddr(t), FrameParamAddr(t)} : t \in Threads}

Unmapped == [tag |-> "unmapped"]
NoFrame == [fn |-> "none"]
NoCall == [fn |-> "none"]
Void == [void |-> TRUE]
IntValue(r) == [int |-> r]

\* ---------------------------------------------------------------- inputs
\* int64_t timestamps are written as four 16-bit limbs, most significant
\* first: 1700000000 = 0x6553F100, and 2^40 + 5.
LogRecords(t) ==
    {[level |-> 3, time |-> <<0, 0, 25939, 61696>>, message |-> TextAddr(t)],
     [level |-> 16, time |-> <<0, 256, 0, 5>>, message |-> TextAddr(t)],
     [level |-> 3, time |-> <<0, 256, 0, 5>>, message |-> NULL]}
KeyRecords == {[keycode |-> 0, duration |-> 0], [keycode |-> 113, duration |-> 500]}
CommandRecords == {[opcode |-> 54]}
ConfigRecords == {[clientVersion |-> 6]}
Params == {[paramType |-> 1, paramData |-> NULL], [paramType |-> 2, paramData |-> 7]}
AlertArgs == {[alert |-> 0, param |-> [paramType |-> 1, paramData |-> NULL]],
              [alert |-> 5, param |-> [paramType |-> 2, paramData |-> 7]]}
\* cec_menu_state has the enumerators 0 and 1; 7 is outside the enum range.
MenuStates == {0, 1, 7}
\* What the host handler may answer.
MenuResults == {0, 1, -5}
\* Logical address and uint8_t activation flag.
SourceArgs == {[address |-> -1, activated |-> 0], [address |-> 4, activated |-> 1],
               [address |-> 4, activated |-> 255]}

LogCalls(t) ==
    {[fn |-> "goLogMessageCallback", handle |-> h, message |-> NULL, rec |-> Unmapped] : h \in Handles(t)}
    \cup {[fn |-> "goLogMessageCallback", handle |-> h, message |-> RecAddr(t), rec |-> r] :
            h \in Handles(t), r \in LogRecords(t)}

KeyCalls(t) ==
    {[fn |-> "goKeyPressCallback", handle |-> h, key |-> NULL, rec |-> Unmapped] : h \in Handles(t)}
    \cup {[fn |-> "goKeyPressCallback", handle |-> h, key |-> RecAddr(t), rec |-> r] :
            h \in Handles(t), r \in KeyRecords}

CommandCalls(t) ==
    {[fn |-> "goCommandCallback", handle |-> h, command |-> NULL, rec |-> Unmapped] : h \in Handles(t)}
    \cup {[fn |-> "goCommandCallback", handle |-> h, command |-> RecAddr(t), rec |-> r] :
            h \in Handles(t), r \in CommandRecords}

ConfigCalls(t) ==
    {[fn |-> "goConfigurationChangedCallback", handle |-> h, config |-> NULL, rec |-> Unmapped] : h \in Handles(t)}
    \cup {[fn |-> "goConfigurationChangedCallback", handle |-> h, config |-> RecAddr(t), rec |-> r] :
            h \in Handles(t), r \in ConfigRecords}

AlertCalls(t) ==
    {[fn |-> "goAlertCallback", handle |-> h, alert |-> a.alert, param |-> a.param] :
            h \in Handles(t), a \in AlertArgs}

MenuCalls(t) ==
    {[fn |-> "goMenuStateChangedCallback", handle |-> h, state |-> s] : h \in Handles(t), s \in MenuStates}

SourceCalls(t) ==
    {[fn |-> "goSourceActivatedCallback", handle |-> h, address |-> a.address,
      activated |-> a.activated] : h \in Handles(t), a \in SourceArgs}

Calls(t) == LogCalls(t) \cup KeyCalls(t) \cup CommandCalls(t) \cup ConfigCalls(t)
            \cup AlertCalls(t) \cup MenuCalls(t) \cup SourceCalls(t)

PointerFns == {"goLogMessageCallback", "goKeyPressCallback", "goCommandCallback",
               "goConfigurationChangedCallback"}

\* The record pointer argument of a call of a pointer-bearing entry point.
RecordPtr(c) ==
    CASE c.fn = "goLogMessageCallback" -> c.message
      [] c.fn = "goKeyPressCallback" -> c.key
      [] c.fn = "goCommandCallback" -> c.command
      [] c.fn = "goConfigurationChangedCallback" -> c.config
      [] OTHER -> NULL

\* The parameters as the entry point receives them (its stack frame).
FrameOf(c) ==
    CASE c.fn = "goLogMessageCallback" -> [fn |-> c.fn, handle |-> c.handle, message |-> c.message]
      [] c.fn = "goKeyPressCallback" -> [fn |-> c.fn, handle |-> c.handle, key |-> c.key]
      [] c.fn = "goCommandCallback" -> [fn |-> c.fn, handle |-> c.handle, command |-> c.command]
      [] c.fn = "goConfigurationChangedCallback" -> [fn |-> c.fn, handle |-> c.handle, config |-> c.config]
      [] c.fn = "goAlertCallback" -> [fn |-> c.fn, handle |-> c.handle, alert |-> c.alert]
      [] c.fn = "goMenuStateChangedCallback" -> [fn |-> c.fn, handle |-> c.handle, state |-> c.state]
      [] c.fn = "goSourceActivatedCallback" ->
            [fn |-> c.fn, handle |-> c.handle, address |-> c.address, activated |-> c.activated]

\* Memory libCEC sets up for the call c on thread t.
MemForCall(t, c) ==
    [a \in Addrs |->
        IF a = NULL THEN Unmapped
        ELSE IF c.fn \in PointerFns /\ a = RecAddr(t) /\ RecordPtr(c) # NULL THEN c.rec
        ELSE IF c.fn = "goLogMessageCallback" /\ a = TextAddr(t) /\ c.message # NULL
                /\ c.rec.message # NULL THEN [text |-> "adapter initialized"]
        ELSE IF c.fn = "goAlertCallback" /\ a \in {CallerParamAddr(t), FrameParamAddr(t)} THEN c.param
        ELSE IF a \in {RecAddr(t), TextAddr(t), CallerParamAddr(t), FrameParamAddr(t)} THEN Unmapped
        ELSE mem[a]]

Init ==
    /\ pc = [t \in Threads |-> "idle"]
    /\ call = [t \in Threads |-> NoCall]
    /\ frame = [t \in Threads |-> NoFrame]
    /\ mem = [a \in Addrs |-> Unmapped]
    /\ out = [t \in Threads |-> <<>>]
    /\ running = {}
    /\ hres = [t \in Threads |-> Void]
    /\ ret = [t \in Threads |-> Void]
    /\ faulted = [t \in Threads |-> FALSE]
    /\ lastOutcome = "none"
    /\ prior = [t \in Threads |-> "none"]
    /\ started = 0

\* libCEC invokes an entry point on thread t: arguments are copied into the
\* callee's frame; by-value aggregates (param) get their own storage.
NativeCall(t) ==
    /\ pc[t] \in {"idle", "returned"}
    /\ ~faulted[t]
    /\ started < MaxCalls
    /\ \E c \in Calls(t) :
        /\ call' = [call EXCEPT ![t] = c]
        /\ frame' = [frame EXCEPT ![t] = FrameOf(c)]
        /\ mem' = MemForCall(t, c)
    /\ pc' = [pc EXCEPT ![t] = "entered"]
    /\ out' = [out EXCEPT ![t] = <<>>]
    /\ hres' = [hres EXCEPT ![t] = Void]
    /\ ret' = [ret EXCEPT ![t] = Void]
    /\ prior' = [prior EXCEPT ![t] = lastOutcome]
    /\ started' = started + 1
    /\ UNCHANGED <<running, faulted, lastOutcome>>


\* ---------------------------------------------------------- entry points
\* Variant: the handle is kept in one file-scope static that a concurrent
\* invocation overwrites.
LocalShared(t) ==
    IF \E u \in Threads \ {t} : frame[u] # NoFrame
    THEN [frame[t] EXCEPT !.handle = frame[CHOOSE u \in Threads \ {t} : frame[u] # NoFrame].handle]
    ELSE frame[t]

\* The parameters an entry point reads are its own (automatic storage).
Local(t) == frame[t]

\* Variant: the flag is promoted as a signed 8-bit value.
SignExtend8(b) == IF b % 256 >= 128 THEN (b % 256) - 256 ELSE b % 256

\* uint8_t -> int at the call of goSourceActivatedCallbackBridge: integer
\* promotion of an unsigned 8-bit value keeps its value.
UInt8ToInt(b) == b % 256

\* Variant: the handler is given the address of the caller's object.
AlertParamRefCaller(t) == CallerParamAddr(t)

\* `&param`: the address of goAlertCallback's own parameter object.
AlertParamRef(t) == FrameParamAddr(t)

\* Variant: only the record pointer is tested.
goLogMessageCallbackGuardRecordOnly(t) == Local(t).message # NULL

goLogMessageCallbackGuard(t) ==
    Local(t).message # NULL /\ mem[Local(t).message].message # NULL

\* Variant: the null test is missing.
goKeyPressCallbackUnguarded(t) == TRUE

goKeyPressCallbackGuard(t) == Local(t).key # NULL

\* Variant: the handle is null-checked too.
goCommandCallbackGuardHandle(t) == Local(t).command # NULL /\ Local(t).handle # NULL

goCommandCallbackGuard(t) == Local(t).command # NULL

\* Variant: a dropped event mutes the bridge (a sticky static flag).
goConfigurationChangedCallbackGuardSticky(t) ==
    Local(t).config # NULL /\ lastOutcome # "dropped"

goConfigurationChangedCallbackGuard(t) == Local(t).config # NULL

\* The entry point calls the bridge function d.fn with the arguments in d.
Dispatch(t, d) ==
    /\ out' = [out EXCEPT ![t] = Append(@, d)]
    /\ running' = running \cup {t}
    /\ pc' = [pc EXCEPT ![t] = "inHandler"]
    /\ UNCHANGED faulted

\* The guard failed: the body is skipped.
Drop(t) ==
    /\ pc' = [pc EXCEPT ![t] = "leaving"]
    /\ UNCHANGED <<out, running, faulted>>

\* A read through a pointer that addresses no object.
Fault(t) ==
    /\ faulted' = [faulted EXCEPT ![t] = TRUE]
    /\ pc' = [pc EXCEPT ![t] = "crashed"]
    /\ UNCHANGED <<out, running>>

goLogMessageCallback(t) ==
    /\ pc[t] = "entered"
    /\ frame[t].fn = "goLogMessageCallback"
    /\ IF goLogMessageCallbackGuard(t)
       THEN IF mem[Local(t).message] = Unmapped
            THEN Fault(t)
            ELSE Dispatch(t, [fn |-> "goLogMessageCallbackBridge",
                              handle |-> Local(t).handle,
                              level |-> mem[Local(t).message].level,
                              timestamp |-> mem[Local(t).message].time,
                              message |-> mem[Local(t).message].message])
       ELSE Drop(t)
    /\ UNCHANGED <<call, frame, mem, hres, ret, lastOutcome, prior, started>>

goKeyPressCallback(t) ==
    /\ pc[t] = "entered"
    /\ frame[t].fn = "goKeyPressCallback"
    /\ IF goKeyPressCallbackGuard(t)
       THEN IF mem[Local(t).key] = Unmapped
            THEN Fault(t)
            ELSE Dispatch(t, [fn |-> "goKeyPressCallbackBridge",
                              handle |-> Local(t).handle,
                              keycode |-> mem[Local(t).key].keycode,
                              duration |-> mem[Local(t).key].duration])
       ELSE Drop(t)
    /\ UNCHANGED <<call, frame, mem, hres, ret, lastOutcome, prior, started>>

goCommandCallback(t) ==
    /\ pc[t] = "entered"
    /\ frame[t].fn = "goCommandCallback"
    /\ IF goCommandCallbackGuard(t)
       THEN Dispatch(t, [fn |-> "goCommandCallbackBridge",
                         handle |-> Local(t).handle,
                         command |-> Local(t).command])
       ELSE Drop(t)
    /\ UNCHANGED <<call, frame, mem, hres, ret, lastOutcome, prior, started>>

goConfigurationChangedCallback(t) ==
    /\ pc[t] = "entered"
    /\ frame[t].fn = "goConfigurationChangedCallback"
    /\ IF goConfigurationChangedCallbackGuard(t)
       THEN Dispatch(t, [fn |-> "goConfigurationChangedCallbackBridge",
                         handle |-> Local(t).handle,
                         config |-> Local(t).config])
       ELSE Drop(t)
    /\ UNCHANGED <<call, frame, mem, hres, ret, lastOutcome, prior, started>>

goAlertCallback(t) ==
    /\ pc[t] = "entered"
    /\ frame[t].fn = "goAlertCallback"
    /\ Dispatch(t, [fn |-> "goAlertCallbackBridge",
                    handle |-> Local(t).handle,
                    alert |-> Local(t).alert,
                    param |-> AlertParamRef(t)])
    /\ UNCHANGED <<call, frame, mem, hres, ret, lastOutcome, prior, started>>

\* Variant: the menu query is guarded by a null test of the handle.
goMenuStateChangedCallbackHandleChecked(t) ==
    /\ pc[t] = "entered"
    /\ frame[t].fn = "goMenuStateChangedCallback"
    /\ IF Local(t).handle # NULL
       THEN Dispatch(t, [fn |-> "goMenuStateChangedCallbackBridge",
                         handle |-> Local(t).handle,
                         state |-> Local(t).state])
       ELSE Drop(t)
    /\ UNCHANGED <<call, frame, mem, hres, ret, lastOutcome, prior, started>>

goMenuStateChangedCallback(t) ==
    /\ pc[t] = "entered"
    /\ frame[t].fn = "goMenuStateChangedCallback"
    /\ Dispatch(t, [fn |-> "goMenuStateChangedCallbackBridge",
                    handle |-> Local(t).handle,
                    state |-> Local(t).state])
    /\ UNCHANGED <<call, frame, mem, hres, ret, lastOutcome, prior, started>>

goSourceActivatedCallback(t) ==
    /\ pc[t] = "entered"
    /\ frame[t].fn = "goSourceActivatedCallback"
    /\ Dispatch(t, [fn |-> "goSourceActivatedCallbackBridge",
                    handle |-> Local(t).handle,
                    address |-> Local(t).address,
                    activated |-> UInt8ToInt(Local(t).activated)])
    /\ UNCHANGED <<call, frame, mem, hres, ret, lastOutcome, prior, started>>

\* ---------------------------------------------------------- host handlers
\* The bridge function the running handler of thread t was called as.
Handler(t) == out[t][Len(out[t])]

HandlerDone(t) ==
    /\ running' = running \ {t}
    /\ pc' = [pc EXCEPT ![t] = IF pc[t] = "inHandler" THEN "leaving" ELSE pc[t]]

\* The five void handlers that only read their arguments.
VoidBridge(t) ==
    /\ t \in running
    /\ Handler(t).fn \in {"goLogMessageCallbackBridge", "goKeyPressCallbackBridge",
                          "goCommandCallbackBridge", "goConfigurationChangedCallbackBridge",
                          "goSourceActivatedCallbackBridge"}
    /\ HandlerDone(t)
    /\ UNCHANGED <<call, frame, mem, out, hres, ret, faulted, lastOutcome, prior, started>>

\* The alert handler may store a parameter value through the pointer it was
\* given.  The object it addresses is const-qualified in goAlertCallback, so
\* the store is undefined: it may land or leave the object as it was.
goAlertCallbackBridge(t) ==
    /\ t \in running
    /\ Handler(t).fn = "goAlertCallbackBridge"
    /\ \/ /\ hres' = [hres EXCEPT ![t] = Void]
          /\ mem' = mem
       \/ \E w \in Params, lands \in BOOLEAN :
            /\ hres' = [hres EXCEPT ![t] = [stored |-> w, landed |-> lands]]
            /\ mem' = IF lands THEN [mem EXCEPT ![Handler(t).param] = w] ELSE mem
    /\ HandlerDone(t)
    /\ UNCHANGED <<call, frame, out, ret, faulted, lastOutcome, prior, started>>

\* The menu handler answers with an int.
goMenuStateChangedCallbackBridge(t) ==
    /\ t \in running
    /\ Handler(t).fn = "goMenuStateChangedCallbackBridge"
    /\ \E r \in MenuResults : hres' = [hres EXCEPT ![t] = IntValue(r)]
    /\ HandlerDone(t)
    /\ UNCHANGED <<call, frame, mem, out, ret, faulted, lastOutcome, prior, started>>

\* ------------------------------------------------------------------ return
\* Variant: the answer is normalised to the enum range.
MenuReturnClamped(t) == IF hres[t] \in {IntValue(0), IntValue(1)} THEN hres[t] ELSE IntValue(0)

\* `return goMenuStateChangedCallbackBridge(handle, state);`
MenuReturn(t) == hres[t]

\* Variant: the parameters are kept in static storage after the return.
FrameKept(t) == frame[t]

\* What is left of the entry point's automatic storage once it has returned.
FrameAfterReturn(t) == NoFrame

\* The entry point returns to libCEC; libCEC then releases the payload.
Return(t) ==
    /\ pc[t] = "leaving"
    /\ ret' = [ret EXCEPT ![t] =
                 IF frame[t].fn = "goMenuStateChangedCallback" THEN MenuReturn(t) ELSE Void]
    /\ frame' = [frame EXCEPT ![t] = FrameAfterReturn(t)]
    /\ mem' = [a \in Addrs |->
                 IF a \in {RecAddr(t), TextAddr(t), FrameParamAddr(t)} THEN Unmapped ELSE mem[a]]
    /\ lastOutcome' = IF out[t] = <<>> THEN "dropped" ELSE "dispatched"
    /\ pc' = [pc EXCEPT ![t] = "returned"]
    /\ UNCHANGED <<call, out, running, hres, faulted, prior, started>>

Next ==
    \E t \in Threads :
        \/ NativeCall(t)
        \/ goLogMessageCallback(t)
        \/ goKeyPressCallback(t)
        \/ goCommandCallback(t)
        \/ goConfigurationChangedCallback(t)
        \/ goAlertCallback(t)
        \/ goMenuStateChangedCallback(t)
        \/ goSourceActivatedCallback(t)
        \/ VoidBridge(t)
        \/ goAlertCallbackBridge(t)
        \/ goMenuStateChangedCallbackBridge(t)
        \/ Return(t)

Spec == Init /\ [][Next]_vars

TypeOK ==
    /\ pc \in [Threads -> {"idle", "entered", "inHandler", "leaving", "returned", "crashed"}]
    /\ running \subseteq Threads
    /\ started \in 0..MaxCalls
    /\ lastOutcome \in {"none", "dropped", "dispatched"}


\* ------------------------------------------------------------- properties
\* The entry point's body has run (it called its handler or skipped it).
Past(t) == pc[t] \in {"inHandler", "leaving", "returned"}

\* The bridge function each entry point is declared to forward to.
BridgeOf(fn) ==
    CASE fn = "goLogMessageCallback" -> "goLogMessageCallbackBridge"
      [] fn = "goKeyPressCallback" -> "goKeyPressCallbackBridge"
      [] fn = "goCommandCallback" -> "goCommandCallbackBridge"
      [] fn = "goConfigurationChangedCallback" -> "goConfigurationChangedCallbackBridge"
      [] fn = "goAlertCallback" -> "goAlertCallbackBridge"
      [] fn = "goMenuStateChangedCallback" -> "goMenuStateChangedCallbackBridge"
      [] fn = "goSourceActivatedCallback" -> "goSourceActivatedCallbackBridge"
      [] OTHER -> "none"

\* The payload libCEC passed is complete: no null record, no null text.
ValidPayload(c) ==
    CASE c.fn = "goLogMessageCallback" -> c.message # NULL /\ c.rec.message # NULL
      [] c.fn \in PointerFns -> RecordPtr(c) # NULL
      [] OTHER -> c.fn # "none"

\* The dispatch d carries the values libCEC passed in the call c.
Carries(d, c) ==
    /\ d.fn = BridgeOf(c.fn)
    /\ d.handle = c.handle
    /\ CASE c.fn = "goLogMessageCallback" ->
                d.level = c.rec.level /\ d.timestamp = c.rec.time /\ d.message = c.rec.message
         [] c.fn = "goKeyPressCallback" ->
                d.keycode = c.rec.keycode /\ d.duration = c.rec.duration
         [] c.fn = "goCommandCallback" -> d.command = c.command
         [] c.fn = "goConfigurationChangedCallback" -> d.config = c.config
         [] c.fn = "goAlertCallback" -> d.alert = c.alert
         [] c.fn = "goMenuStateChangedCallback" -> d.state = c.state
         [] c.fn = "goSourceActivatedCallback" ->
                d.address = c.address /\ d.activated = c.activated
         [] OTHER -> FALSE

\* C1: a call of any of the seven entry points with a valid, non-null payload
\* makes exactly one call, to its own bridge function and to no other, and the
\* forwarded fields (level, timestamp and text reference; keycode and
\* duration; the record's address; alert kind; state; logical address and
\* activation flag) equal the input's.
C1_ExactlyOneDispatchWithEqualFields ==
    \A t \in Threads :
        (Past(t) /\ ValidPayload(call[t])) =>
            /\ Len(out[t]) = 1
            /\ Carries(out[t][1], call[t])

C1_Witness ==
    \E t \in Threads, u \in Threads :
        /\ t # u
        /\ pc[t] = "returned" /\ pc[u] = "returned"
        /\ call[t].fn = "goSourceActivatedCallback" /\ call[t].activated = 255
        /\ Len(out[t]) = 1 /\ out[t][1].activated = 255
        /\ call[u].fn = "goLogMessageCallback" /\ Len(out[u]) = 1
        /\ out[u][1].level = 3 /\ out[u][1].timestamp = <<0, 0, 25939, 61696>>

\* C2: a call of a pointer-bearing entry point (log, key press, command,
\* configuration) whose record pointer is null calls no host handler, reads
\* nothing through the record pointer and does not fault, whatever the handle.
C2_NullRecordIsNoOp ==
    \A t \in Threads :
        (call[t].fn \in PointerFns /\ RecordPtr(call[t]) = NULL) =>
            /\ out[t] = <<>>
            /\ ~faulted[t]
            /\ pc[t] \in {"entered", "leaving", "returned"}
            /\ t \notin running

C2_Witness ==
    \E t \in Threads, u \in Threads :
        /\ t # u
        /\ pc[t] = "returned" /\ pc[u] = "returned"
        /\ call[t].fn = "goKeyPressCallback" /\ call[t].key = NULL /\ call[t].handle = NULL
        /\ call[u].fn = "goLogMessageCallback" /\ call[u].message = NULL /\ call[u].handle # NULL
        /\ out[t] = <<>> /\ out[u] = <<>>

\* C3: the log handler is called if and only if both the record and its
\* message text are non-null; a record with a null text is dropped for every
\* level and timestamp.
C3_LogDispatchedIffRecordAndText ==
    \A t \in Threads :
        (Past(t) /\ call[t].fn = "goLogMessageCallback") =>
            /\ Len(out[t]) <= 1
            /\ (Len(out[t]) = 1) <=> (call[t].message # NULL /\ call[t].rec.message # NULL)

C3_Witness ==
    \E t \in Threads :
        /\ pc[t] = "returned"
        /\ call[t].fn = "goLogMessageCallback"
        /\ call[t].message # NULL /\ call[t].rec.message = NULL
        /\ out[t] = <<>>

\* C4: goMenuStateChangedCallback returns exactly the int its handler
\* returned, for every state and every answer, in or out of the enum range.
C4_MenuResultPassedThrough ==
    \A t \in Threads :
        (pc[t] = "returned" /\ call[t].fn = "goMenuStateChangedCallback") =>
            /\ hres[t] \in {IntValue(r) : r \in MenuResults}
            /\ ret[t] = hres[t]

C4_Witness ==
    \E t \in Threads :
        /\ pc[t] = "returned"
        /\ call[t].fn = "goMenuStateChangedCallback" /\ call[t].state = 7
        /\ hres[t] = IntValue(-5) /\ ret[t] = IntValue(-5)

\* C5 as stated: once the alert handler has stored a value through the
\* reference it was given, and the store took effect, the caller of
\* goAlertCallback observes that value in its parameter object during the call.
C5_StoreSeenByCaller ==
    \A t \in Threads :
        (call[t].fn = "goAlertCallback" /\ pc[t] = "leaving" /\ hres[t] # Void) =>
            (hres[t].landed => mem[CallerParamAddr(t)] = hres[t].stored)

\* C5 amended: the alert handler is given the address of goAlertCallback's own
\* copy of the parameter, which holds the caller's value when the handler is
\* called; whatever the handler stores through it, the caller's parameter
\* object keeps its value during and after the call.
C5_HandlerGetsCopyCallerUnchanged ==
    \A t \in Threads :
        (call[t].fn = "goAlertCallback" /\ Past(t)) =>
            /\ Len(out[t]) = 1
            /\ out[t][1].param # NULL
            /\ out[t][1].param # CallerParamAddr(t)
            /\ mem[CallerParamAddr(t)] = call[t].param
            /\ (t \in running => mem[out[t][1].param] = call[t].param)

C5_Witness ==
    \E t \in Threads :
        /\ call[t].fn = "goAlertCallback" /\ pc[t] = "leaving"
        /\ hres[t] # Void
        /\ hres[t].landed /\ hres[t].stored # call[t].param
        /\ mem[out[t][1].param] = hres[t].stored

\* C6: when two different entry points run at the same time on two threads
\* with distinct handles, every dispatch of each carries the handle and the
\* fields of its own call and not the other call's handle.
C6_ConcurrentCallsKeepOwnArguments ==
    \A t \in Threads, u \in Threads :
        (/\ t # u
         /\ pc[t] \in {"entered", "inHandler", "leaving"}
         /\ pc[u] \in {"entered", "inHandler", "leaving"}
         /\ call[t].fn # call[u].fn
         /\ call[t].handle # call[u].handle) =>
            \A i \in 1..Len(out[t]) :
                /\ Carries(out[t][i], call[t])
                /\ out[t][i].handle # call[u].handle

C6_Witness ==
    \E t \in Threads, u \in Threads :
        /\ t # u
        /\ pc[t] = "inHandler" /\ pc[u] = "inHandler"
        /\ call[t].fn = "goLogMessageCallback" /\ call[u].fn = "goKeyPressCallback"
        /\ call[t].handle # NULL /\ call[u].handle # NULL
        /\ call[t].handle # call[u].handle
        /\ out[t][1].handle = call[t].handle /\ out[u][1].handle = call[u].handle

RecordlessFns == {"goAlertCallback", "goMenuStateChangedCallback", "goSourceActivatedCallback"}

\* C7: the alert, menu-state and source-activated entry points have no guard:
\* every call, null handle included, calls its handler exactly once, and every
\* call of goMenuStateChangedCallback returns an int.
C7_RecordlessAlwaysDispatch ==
    \A t \in Threads :
        /\ (Past(t) /\ call[t].fn \in RecordlessFns) =>
                (Len(out[t]) = 1 /\ out[t][1].fn = BridgeOf(call[t].fn))
        /\ (pc[t] = "returned" /\ call[t].fn = "goMenuStateChangedCallback") =>
                ret[t] \in {IntValue(r) : r \in MenuResults}

C7_Witness ==
    \E t \in Threads, u \in Threads :
        /\ t # u
        /\ pc[t] = "returned" /\ pc[u] = "returned"
        /\ call[t].fn = "goMenuStateChangedCallback" /\ call[t].handle = NULL
        /\ call[u].fn = "goAlertCallback" /\ call[u].handle = NULL
        /\ Len(out[t]) = 1 /\ Len(out[u]) = 1
        /\ ret[t] # Void

\* C8: every dispatch passes on exactly the handle its entry point received,
\* and a null handle neither suppresses nor alters the dispatch of a valid
\* payload.
C8_HandlePassedUnmodified ==
    \A t \in Threads :
        /\ \A i \in 1..Len(out[t]) : out[t][i].handle = call[t].handle
        /\ (Past(t) /\ ValidPayload(call[t]) /\ call[t].handle = NULL) => Len(out[t]) = 1

C8_Witness ==
    \E t \in Threads :
        /\ pc[t] = "returned"
        /\ call[t].fn = "goCommandCallback" /\ call[t].command # NULL
        /\ call[t].handle = NULL
        /\ Len(out[t]) = 1 /\ out[t][1].handle = NULL

\* What a call with the arguments c makes thread t dispatch.
ExpectedOut(t, c) ==
    IF ~ValidPayload(c) THEN <<>>
    ELSE CASE c.fn = "goLogMessageCallback" ->
                <<[fn |-> "goLogMessageCallbackBridge", handle |-> c.handle,
                   level |-> c.rec.level, timestamp |-> c.rec.time, message |-> c.rec.message]>>
           [] c.fn = "goKeyPressCallback" ->
                <<[fn |-> "goKeyPressCallbackBridge", handle |-> c.handle,
                   keycode |-> c.rec.keycode, duration |-> c.rec.duration]>>
           [] c.fn = "goCommandCallback" ->
                <<[fn |-> "goCommandCallbackBridge", handle |-> c.handle, command |-> c.command]>>
           [] c.fn = "goConfigurationChangedCallback" ->
                <<[fn |-> "goConfigurationChangedCallbackBridge", handle |-> c.handle,
                   config |-> c.config]>>
           [] c.fn = "goAlertCallback" ->
                <<[fn |-> "goAlertCallbackBridge", handle |-> c.handle, alert |-> c.alert,
                   param |-> FrameParamAddr(t)]>>
           [] c.fn = "goMenuStateChangedCallback" ->
                <<[fn |-> "goMenuStateChangedCallbackBridge", handle |-> c.handle,
                   state |-> c.state]>>
           [] c.fn = "goSourceActivatedCallback" ->
                <<[fn |-> "goSourceActivatedCallbackBridge", handle |-> c.handle,
                   address |-> c.address, activated |-> c.activated]>>

\* C9: the bridge is memoryless: whatever calls came before (dispatched or
\* dropped, on any thread), the dispatches of a call are determined by its own
\* arguments and its return value by its handler's answer.
C9_Memoryless ==
    \A t \in Threads :
        /\ Past(t) => out[t] = ExpectedOut(t, call[t])
        /\ pc[t] = "returned" =>
                ret[t] = IF call[t].fn = "goMenuStateChangedCallback" THEN hres[t] ELSE Void

C9_Witness ==
    \E t \in Threads :
        /\ prior[t] = "dropped"
        /\ pc[t] = "returned"
        /\ call[t].fn = "goConfigurationChangedCallback"
        /\ Len(out[t]) = 1

\* The pointers a dispatch hands to the host handler.
Borrowed(d) ==
    CASE d.fn = "goLogMessageCallbackBridge" -> {d.message}
      [] d.fn = "goCommandCallbackBridge" -> {d.command}
      [] d.fn = "goConfigurationChangedCallbackBridge" -> {d.config}
      [] d.fn = "goAlertCallbackBridge" -> {d.param}
      [] OTHER -> {}

\* C10: a host handler runs only between the start and the return of the
\* invocation that dispatched it, on pointers that are still valid, and once
\* the invocation has returned the bridge holds none of its pointers.
C10_DispatchWithinCallNothingKept ==
    \A t \in Threads :
        /\ t \in running => pc[t] = "inHandler"
        /\ t \in running => \A p \in Borrowed(Handler(t)) : mem[p] # Unmapped
        /\ out[t] # <<>> => Past(t)
        /\ Len(out[t]) <= 1
        /\ pc[t] \in {"idle", "returned"} => (frame[t] = NoFrame /\ t \notin running)

C10_Witness ==
    \E t \in Threads :
        /\ pc[t] = "returned"
        /\ call[t].fn = "goCommandCallback"
        /\ Len(out[t]) = 1
        /\ out[t][1].command = RecAddr(t)
        /\ mem[RecAddr(t)] = Unmapped
        /\ frame[t] = NoFrame

====
